---- MODULE Spec2Model ----
(***************************************************************************)
(* Model of the BigQuery destination's command builders                    *)
(* (mage_integrations/destinations/bigquery/__init__.py), of the execution *)
(* of the commands it emits, and of DbtCloudClient.trigger_job_run         *)
(* (mage_ai/services/dbt/dbt.py).                                          *)
(*                                                                         *)
(* SQL text is modelled structurally: a command is a record with a `kind`  *)
(* and the pieces the f-string interpolates; a dotted table identifier     *)
(* 'a.b.c' is the sequence <<"a", "b", "c">> of its components; a          *)
(* ', '.join(xs) is the sequence xs.  An Optional[T] argument is None ==   *)
(* <<>> or Some(v) == <<v>>.                                               *)
(***************************************************************************)
EXTENDS Integers, Sequences, FiniteSets, TLC

VARIABLES
    partition_keys,   \* self.partition_keys: stream -> list of partition columns
    op,               \* the operation that ran last ("idle" before any)
    args,             \* the arguments it was called with
    ret,              \* what it returned
    default_project,  \* the project the connection resolves 2-part names in
    tables,           \* the tables that exist in the warehouse
    pc,               \* index of the next command to execute (0: not executing)
    failed_at,        \* index of the command that raised (0: none)
    created,          \* the table the staging CREATE TABLE made (<<>>: none)
    dbt               \* the state of one trigger_job_run call

vars == <<partition_keys, op, args, ret, default_project, tables, pc,
          failed_at, created, dbt>>

(***************************************************************************)
(* Bounds                                                                  *)
(***************************************************************************)
MaxCols == 3
MaxRecords == 2
MaxLive == 3
MaxResultSets == 2
MaxRows == 1
MaxClock == 3
MaxPolls == 3
ExecMaxCols == 2
ExecMaxRecords == 1

(***************************************************************************)
(* Python values                                                           *)
(***************************************************************************)
None == <<>>
Some(v) == <<v>>

\* str(x) inside an f-string: None renders as 'None'.
Str(o) == IF o = None THEN "None" ELSE o[1]

\* bool(x) of an Optional[str]: None and '' are falsy.
TruthyStr(o) == o # None /\ o[1] # ""

\* bool(x) of an Optional[List]: None and [] are falsy.
TruthyList(o) == o # None /\ Len(o[1]) > 0

\* bool(x) of an Optional[float]: None and 0 are falsy.
TruthyNum(o) == o # None /\ o[1] # 0

Range(s) == {s[i] : i \in DOMAIN s}

RECURSIVE SelectSeqBy(_, _)
\* [c for c in s if c not in excluded]
SelectSeqBy(s, excluded) ==
    IF s = <<>> THEN <<>>
    ELSE IF Head(s) \in excluded THEN SelectSeqBy(Tail(s), excluded)
         ELSE <<Head(s)>> \o SelectSeqBy(Tail(s), excluded)

\* Duplicate-free sequences over S of length lo..hi.
SeqsNoDup(S, lo, hi) ==
    UNION {{s \in [1..n -> S] : \A i, j \in 1..n : i # j => s[i] # s[j]} : n \in lo..hi}

(***************************************************************************)
(* Inputs                                                                  *)
(***************************************************************************)
ColumnNames == {"id", "Name", "tags"}

ColumnKind(c) ==
    CASE c = "id" -> "number"
      [] c = "Name" -> "string"
      [] OTHER -> "array"

\* schema['properties'] as an ordered mapping: a sequence of (name, descriptor).
SchemaOf(cols) ==
    [properties |-> [i \in DOMAIN cols |-> [name |-> cols[i], type |-> ColumnKind(cols[i])]]]

Schemas == {SchemaOf(cols) : cols \in SeqsNoDup(ColumnNames, 1, MaxCols)}

\* schema['properties'].keys()
Keys(schema) == [i \in DOMAIN schema.properties |-> schema.properties[i].name]

Streams == {"s1", "s2"}

PartitionConfigs ==
    { <<>>,
      [s \in {"s1"} |-> <<>>],
      [s \in {"s1", "s2"} |-> IF s = "s1" THEN <<"created_at", "id">> ELSE <<"day">>] }

UNIQUE_CONFLICT_METHOD_UPDATE == "UPDATE"

ConflictMethods == {None, Some(""), Some("UPDATE"), Some("IGNORE"), Some("REPLACE")}

UniqueConstraintArgs ==
    {None, Some(<<>>)} \cup {Some(u) : u \in SeqsNoDup(ColumnNames, 1, 2)}

DatabaseNames == {None, Some("p")}

\* Two records; the second one lacks 'tags' and has a None name.
RecordPool ==
    { [id |-> Some(1), Name |-> Some("a"), tags |-> Some("x")],
      [id |-> Some(2), Name |-> None, tags |-> None] }

RecordBatches == UNION {[1..n -> RecordPool] : n \in 0..MaxRecords}

(***************************************************************************)
(* Collaborators outside src/ (modelled from the specification)            *)
(***************************************************************************)
\* destinations.utils.clean_column_name: a deterministic, idempotent sanitizer.
clean_column_name(col) ==
    CASE col = "Name" -> "name"
      [] OTHER -> col

\* sql.utils.column_type_mapping with the BigQuery arguments of the call sites.
column_type_mapping(schema) ==
    [c \in Range(Keys(schema)) |->
        CASE ColumnKind(c) = "number" -> "FLOAT64"
          [] ColumnKind(c) = "string" -> "STRING"
          [] OTHER -> "ARRAY"]

\* sql.utils.build_create_table_command
build_create_table_command(mapping, columns, full_table_name) ==
    [kind |-> "CREATE_TABLE",
     table |-> full_table_name,
     columns |-> [i \in DOMAIN columns |-> <<columns[i], mapping[columns[i]]>>],
     partition_by |-> <<>>]

\* sql.utils.build_alter_table_command
build_alter_table_command(mapping, columns, full_table_name) ==
    [kind |-> "ALTER_TABLE",
     table |-> full_table_name,
     add_columns |-> [i \in DOMAIN columns |-> <<columns[i], mapping[columns[i]]>>]]

\* bigquery.utils.convert_column_to_type: the literal of one value.
convert_column_to_type(value, column_type) ==
    IF value = None THEN <<"NULL">> ELSE <<column_type, value[1]>>

\* sql.utils.build_insert_command: (insert_columns, insert_values), one tuple
\* per record, fields in column order.
build_insert_command(mapping, columns, records) ==
    [insert_columns |-> columns,
     insert_values |->
        [r \in DOMAIN records |->
            [i \in DOMAIN columns |->
                convert_column_to_type(records[r][columns[i]], mapping[columns[i]])]]]

(***************************************************************************)
(* BigQuery (destinations/bigquery/__init__.py)                            *)
(***************************************************************************)
\* self.partition_keys.get(stream, [])
PartitionKeysOf(pk, stream) ==
    IF stream # None /\ stream[1] \in DOMAIN pk THEN pk[stream[1]] ELSE <<>>

\* Variant: the partition clause takes the last configured key.
build_create_table_commands_LastKey(pk, schema, schema_name, stream, table_name) ==
    LET create_table_command ==
            build_create_table_command(column_type_mapping(schema), Keys(schema),
                                       <<schema_name, table_name>>)
        stream_partition_keys == PartitionKeysOf(pk, stream)
    IN  IF Len(stream_partition_keys) > 0
        THEN <<[create_table_command EXCEPT
                    !.partition_by =
                        <<stream_partition_keys[Len(stream_partition_keys)]>>]>>
        ELSE <<create_table_command>>

build_create_table_commands(pk, schema, schema_name, stream, table_name) ==
    LET type_mapping == column_type_mapping(schema)
        create_table_command ==
            build_create_table_command(type_mapping, Keys(schema),
                                       <<schema_name, table_name>>)
        stream_partition_keys == PartitionKeysOf(pk, stream)
    IN  IF Len(stream_partition_keys) > 0
        THEN <<[create_table_command EXCEPT
                    !.partition_by = <<stream_partition_keys[1]>>]>>
        ELSE <<create_table_command>>

\* Variant: the schema columns are sanitized before the comparison.
NewColumns_Cleaned(schema, results) ==
    LET current_columns == [i \in DOMAIN results |-> results[i][1]]
        keys == Keys(schema)
        absent == {c \in Range(keys) : clean_column_name(c) \notin Range(current_columns)}
    IN  SelectSeqBy(keys, Range(keys) \ absent)

\* new_columns = [c for c in schema_columns if c not in current_columns]
NewColumns(schema, results) ==
    LET current_columns == [i \in DOMAIN results |-> results[i][1]]
    IN  SelectSeqBy(Keys(schema), Range(current_columns))

\* `results` is what the INFORMATION_SCHEMA.COLUMNS query loaded:
\* rows (column_name, data_type).
build_alter_table_commands(schema, schema_name, table_name, results) ==
    LET new_columns == NewColumns(schema, results)
    IN  IF new_columns = <<>>
        THEN <<>>
        ELSE <<build_alter_table_command(column_type_mapping(schema), new_columns,
                                         <<schema_name, table_name>>)>>

\* Variant: the matched clause sets the non-key columns only.
MergeCommand_NonKeySet(full_table_name, full_table_name_temp, insert_columns, columns, unique_conflict_method, unique_constraints) ==
    LET unique_cleaned ==
            [i \in DOMAIN unique_constraints |-> clean_column_name(unique_constraints[i])]
        columns_cleaned == [i \in DOMAIN columns |-> clean_column_name(columns[i])]
    IN  [kind |-> "MERGE",
         lines |->
            << [clause |-> "MERGE_INTO", table |-> full_table_name],
               [clause |-> "USING", table |-> full_table_name_temp],
               [clause |-> "ON", columns |-> unique_cleaned] >>
            \o (IF Some(UNIQUE_CONFLICT_METHOD_UPDATE) = unique_conflict_method
                THEN <<[clause |-> "WHEN_MATCHED_UPDATE_SET",
                        columns |-> SelectSeqBy(columns_cleaned, Range(unique_cleaned))]>>
                ELSE <<>>)
            \o << [clause |-> "WHEN_NOT_MATCHED_INSERT", columns |-> insert_columns,
                   values |-> columns_cleaned] >>]

\* Variant: the matched clause is emitted whatever the conflict method.
MergeCommand_AlwaysMatched(full_table_name, full_table_name_temp, insert_columns, columns, unique_conflict_method, unique_constraints) ==
    LET unique_cleaned ==
            [i \in DOMAIN unique_constraints |-> clean_column_name(unique_constraints[i])]
        columns_cleaned == [i \in DOMAIN columns |-> clean_column_name(columns[i])]
    IN  [kind |-> "MERGE",
         lines |->
            << [clause |-> "MERGE_INTO", table |-> full_table_name],
               [clause |-> "USING", table |-> full_table_name_temp],
               [clause |-> "ON", columns |-> unique_cleaned],
               [clause |-> "WHEN_MATCHED_UPDATE_SET", columns |-> columns_cleaned],
               [clause |-> "WHEN_NOT_MATCHED_INSERT", columns |-> insert_columns,
                values |-> columns_cleaned] >>]

\* The lines of the MERGE statement, joined by '\n' in the source.
MergeCommand(full_table_name, full_table_name_temp, insert_columns, columns, unique_conflict_method, unique_constraints) ==
    LET unique_cleaned ==
            [i \in DOMAIN unique_constraints |-> clean_column_name(unique_constraints[i])]
        columns_cleaned == [i \in DOMAIN columns |-> clean_column_name(columns[i])]
        merge_commands ==
            << [clause |-> "MERGE_INTO", table |-> full_table_name],
               [clause |-> "USING", table |-> full_table_name_temp],
               [clause |-> "ON", columns |-> unique_cleaned] >>
        matched ==
            IF Some(UNIQUE_CONFLICT_METHOD_UPDATE) = unique_conflict_method
            THEN <<[clause |-> "WHEN_MATCHED_UPDATE_SET", columns |-> columns_cleaned]>>
            ELSE <<>>
        not_matched ==
            << [clause |-> "WHEN_NOT_MATCHED_INSERT",
                columns |-> insert_columns,
                values |-> columns_cleaned] >>
    IN  [kind |-> "MERGE", lines |-> merge_commands \o matched \o not_matched]

\* The commands the upsert branch assembles: drop_temp_table_command, the
\* staging create-table commands, the staging INSERT and merge_command.
UpsertPieces(pk, built, schema, schema_name, table_name, database_name, unique_conflict_method, unique_constraints) ==
    LET full_table_name == <<Str(database_name), schema_name, table_name>>
        full_table_name_temp == <<Str(database_name), schema_name, "temp_" \o table_name>>
    IN  [drop |-> [kind |-> "DROP_TABLE_IF_EXISTS", table |-> full_table_name_temp],
         create |-> build_create_table_commands(pk, schema, schema_name, None,
                                                "temp_" \o table_name),
         insert |-> [kind |-> "INSERT", table |-> full_table_name_temp,
                     columns |-> built.insert_columns, values |-> built.insert_values],
         merge |-> MergeCommand(full_table_name, full_table_name_temp,
                                built.insert_columns, Keys(schema),
                                unique_conflict_method, unique_constraints)]

\* Variant: the MERGE is emitted before the staging INSERT.
UpsertCommands_MergeBeforeInsert(pk, built, schema, schema_name, table_name, database_name, unique_conflict_method, unique_constraints) ==
    LET x == UpsertPieces(pk, built, schema, schema_name, table_name, database_name,
                          unique_conflict_method, unique_constraints)
    IN  <<x.drop>> \o x.create \o <<x.merge, x.insert, x.drop>>

\* Variant: the trailing DROP TABLE IF EXISTS is left out.
UpsertCommands_NoCleanup(pk, built, schema, schema_name, table_name, database_name, unique_conflict_method, unique_constraints) ==
    LET x == UpsertPieces(pk, built, schema, schema_name, table_name, database_name,
                          unique_conflict_method, unique_constraints)
    IN  <<x.drop>> \o x.create \o <<x.insert, x.merge>>

\* The staging-merge sequence returned when unique constraints and a
\* conflict method are given.
UpsertCommands(pk, built, schema, schema_name, table_name, database_name, unique_conflict_method, unique_constraints) ==
    LET x == UpsertPieces(pk, built, schema, schema_name, table_name, database_name,
                          unique_conflict_method, unique_constraints)
        commands == <<x.drop>> \o x.create \o <<x.insert>>
    IN  commands \o <<x.merge, x.drop>>

\* Variant: the staging path is taken on the unique constraints alone.
build_insert_commands_ConstraintsOnly(pk, records, schema, schema_name, table_name, database_name, unique_conflict_method, unique_constraints) ==
    LET built == build_insert_command(column_type_mapping(schema), Keys(schema), records)
    IN  IF TruthyList(unique_constraints)
        THEN UpsertCommands(pk, built, schema, schema_name, table_name, database_name,
                            unique_conflict_method, unique_constraints[1])
        ELSE << [kind |-> "INSERT",
                 table |-> <<Str(database_name), schema_name, table_name>>,
                 columns |-> built.insert_columns, values |-> built.insert_values] >>

build_insert_commands(pk, records, schema, schema_name, table_name, database_name, unique_conflict_method, unique_constraints) ==
    LET full_table_name == <<Str(database_name), schema_name, table_name>>
        columns == Keys(schema)
        mapping == column_type_mapping(schema)
        built == build_insert_command(mapping, columns, records)
    IN  IF TruthyList(unique_constraints) /\ TruthyStr(unique_conflict_method)
        THEN UpsertCommands(pk, built, schema, schema_name, table_name, database_name,
                            unique_conflict_method, unique_constraints[1])
        ELSE << [kind |-> "INSERT", table |-> full_table_name,
                 columns |-> built.insert_columns, values |-> built.insert_values] >>

\* A result row is a tuple of fields; a field is <<"int", n>>, <<"bool", b>>,
\* <<"str", s>> or <<"none">>.  type(t[0]) is int holds of the first kind only.
IsInt(field) == field[1] = "int"

RECURSIVE SumRows(_)
SumRows(array_of_tuples) ==
    IF array_of_tuples = <<>> THEN 0
    ELSE LET t == Head(array_of_tuples)
         IN  (IF Len(t) >= 1 /\ IsInt(t[1]) THEN t[1][2] ELSE 0)
             + SumRows(Tail(array_of_tuples))

\* Variant: only the first result set is inspected.
SumData_FirstSetOnly(data) ==
    IF data = <<>> THEN 0 ELSE SumRows(Head(data))

RECURSIVE SumData(_)
SumData(data) ==
    IF data = <<>> THEN 0 ELSE SumRows(Head(data)) + SumData(Tail(data))

calculate_records_inserted_and_updated(data, unique_constraints, unique_conflict_method) ==
    <<SumData(data), 0>>

(***************************************************************************)
(* DbtCloudClient.trigger_job_run (services/dbt/dbt.py)                    *)
(***************************************************************************)
RunStatuses == {"QUEUED", "STARTING", "RUNNING", "SUCCESS", "ERROR", "CANCELLED"}
SUCCESS == "SUCCESS"
TERMINAL_STATUSES == {"SUCCESS", "ERROR", "CANCELLED"}

PollTimeouts == {None, Some(0), Some(1), Some(2)}

\* Variant: the timeout test precedes the terminal-status test.
PollIteration_TimeoutFirst(job_run_status, poll_timeout, elapsed) ==
    IF TruthyNum(poll_timeout) /\ elapsed > poll_timeout[1]
    THEN "raised_timeout"
    ELSE IF job_run_status \in TERMINAL_STATUSES
         THEN IF job_run_status = SUCCESS THEN "returned" ELSE "raised_failed"
         ELSE "sleep"

\* One iteration of the `while True` loop after get_run returned
\* `job_run_status`, with `elapsed` = datetime.now() - poll_start at the
\* timeout test: how the iteration ends.
PollIteration(job_run_status, poll_timeout, elapsed) ==
    IF job_run_status \in TERMINAL_STATUSES
    THEN IF job_run_status = SUCCESS THEN "returned" ELSE "raised_failed"
    ELSE IF TruthyNum(poll_timeout) /\ elapsed > poll_timeout[1]
         THEN "raised_timeout"
         ELSE "sleep"

DbtIdle ==
    [pc |-> "idle", poll_status |-> FALSE, poll_timeout |-> None, status |-> "none",
     polls |-> 0, elapsed |-> 0, outcome |-> "none"]

(***************************************************************************)
(* Inputs of the remaining operations                                      *)
(***************************************************************************)
LiveNames == ColumnNames \cup {"name", "legacy"}

\* The data_type the live table reports; 'id' is live as STRING while the
\* schema maps it to FLOAT64.
LiveType(c) == IF c = "id" THEN "STRING" ELSE "INT64"

LiveResults ==
    {[i \in DOMAIN s |-> <<s[i], LiveType(s[i])>>] : s \in SeqsNoDup(LiveNames, 0, MaxLive)}

ResultRows ==
    { <<>>, <<<<"int", 1>>>>, <<<<"int", 2>>, <<"str", "x">>>>,
      <<<<"bool", TRUE>>>>, <<<<"str", "3">>, <<"int", 1>>>> }

ResultData ==
    LET arrays == UNION {[1..n -> ResultRows] : n \in 0..MaxRows}
    IN  UNION {[1..n -> arrays] : n \in 0..MaxResultSets}

ExecSchemas == {SchemaOf(cols) : cols \in SeqsNoDup(ColumnNames, 1, ExecMaxCols)}
ExecBatches == UNION {[1..n -> RecordPool] : n \in 0..ExecMaxRecords}
ExecUniqueConstraintArgs == {None, Some(<<"id">>), Some(<<"id", "Name">>)}
ExecConflictMethods == {None, Some("UPDATE"), Some("IGNORE")}
Projects == {"p", "q"}

NotExecuting ==
    /\ tables = {}
    /\ pc = 0
    /\ failed_at = 0
    /\ created = <<>>

(***************************************************************************)
(* The connection executing a command list (modelled from the              *)
(* specification: commands run in the order emitted, an execution error    *)
(* propagates and nothing after it runs)                                   *)
(***************************************************************************)
\* BigQuery resolves a dataset.table name in the connection's project.
Resolve(project, table) == IF Len(table) = 2 THEN <<project>> \o table ELSE table

MergeTable(command, clause) ==
    LET i == CHOOSE j \in DOMAIN command.lines : command.lines[j].clause = clause
    IN  command.lines[i].table

\* Whether the warehouse can run the command at all.
CanRun(command, project, existing) ==
    CASE command.kind = "DROP_TABLE_IF_EXISTS" -> TRUE
      [] command.kind = "CREATE_TABLE" -> Resolve(project, command.table) \notin existing
      [] command.kind = "INSERT" -> Resolve(project, command.table) \in existing
      [] command.kind = "MERGE" ->
            /\ Resolve(project, MergeTable(command, "MERGE_INTO")) \in existing
            /\ Resolve(project, MergeTable(command, "USING")) \in existing
      [] OTHER -> TRUE

\* The tables that exist after the command ran.
Effect(command, project, existing) ==
    CASE command.kind = "DROP_TABLE_IF_EXISTS" ->
            existing \ {Resolve(project, command.table)}
      [] command.kind = "CREATE_TABLE" ->
            existing \cup {Resolve(project, command.table)}
      [] OTHER -> existing

(***************************************************************************)
(* Actions: one call of each operation from the idle state                 *)
(***************************************************************************)
BuildCreateTableCommands ==
    /\ op = "idle"
    /\ \E schema \in Schemas, stream \in {None} \cup {Some(x) : x \in Streams} :
          /\ args' = [schema |-> schema, schema_name |-> "d", stream |-> stream,
                      table_name |-> "t"]
          /\ ret' = build_create_table_commands(partition_keys, schema, "d", stream, "t")
    /\ op' = "create"
    /\ UNCHANGED <<partition_keys, default_project, tables, pc, failed_at, created, dbt>>

BuildAlterTableCommands ==
    /\ op = "idle"
    /\ \E schema \in Schemas, results \in LiveResults :
          /\ args' = [schema |-> schema, schema_name |-> "d", table_name |-> "t",
                      results |-> results]
          /\ ret' = build_alter_table_commands(schema, "d", "t", results)
    /\ op' = "alter"
    /\ UNCHANGED <<partition_keys, default_project, tables, pc, failed_at, created, dbt>>

BuildInsertCommandsOn(schemas, batches, methods, uniques) ==
    /\ op = "idle"
    /\ \E schema \in schemas, records \in batches, database_name \in DatabaseNames,
          unique_conflict_method \in methods, unique_constraints \in uniques :
          /\ args' = [records |-> records, schema |-> schema, schema_name |-> "d",
                      table_name |-> "t", database_name |-> database_name,
                      unique_conflict_method |-> unique_conflict_method,
                      unique_constraints |-> unique_constraints]
          /\ ret' = build_insert_commands(partition_keys, records, schema, "d", "t",
                                          database_name, unique_conflict_method,
                                          unique_constraints)
    /\ op' = "insert"
    /\ UNCHANGED <<partition_keys, default_project, tables, pc, failed_at, created, dbt>>

BuildInsertCommands ==
    BuildInsertCommandsOn(Schemas, RecordBatches, ConflictMethods, UniqueConstraintArgs)

CalculateRecordsInsertedAndUpdated ==
    /\ op = "idle"
    /\ \E data \in ResultData,
          u \in {<<None, None>>, <<Some(<<"id">>), Some(UNIQUE_CONFLICT_METHOD_UPDATE)>>} :
          /\ args' = [data |-> data, unique_constraints |-> u[1],
                      unique_conflict_method |-> u[2]]
          /\ ret' = calculate_records_inserted_and_updated(data, u[1], u[2])
    /\ op' = "calculate"
    /\ UNCHANGED <<partition_keys, default_project, tables, pc, failed_at, created, dbt>>

\* The POST that enqueues the run; without poll_status the call returns here.
TriggerJobRun ==
    /\ op = "idle"
    /\ \E poll_status \in BOOLEAN, poll_timeout \in PollTimeouts :
          dbt' = [DbtIdle EXCEPT !.pc = IF poll_status THEN "polling" ELSE "done",
                                 !.poll_status = poll_status,
                                 !.poll_timeout = poll_timeout,
                                 !.outcome = IF poll_status THEN "none" ELSE "returned"]
    /\ op' = "trigger_job_run"
    /\ UNCHANGED <<partition_keys, args, ret, default_project, tables, pc, failed_at,
                   created>>

\* One iteration of the polling loop: get_run, the two tests, time.sleep.
\* `d` is the wall-clock time that passed since the previous reading.
PollRun ==
    /\ dbt.pc = "polling"
    /\ \E job_run_status \in RunStatuses, d \in 0..(MaxClock - dbt.elapsed) :
          LET elapsed == dbt.elapsed + d
              how == PollIteration(job_run_status, dbt.poll_timeout, elapsed)
          IN  dbt' = [dbt EXCEPT !.status = job_run_status,
                                !.polls = IF @ < MaxPolls THEN @ + 1 ELSE @,
                                !.elapsed = elapsed,
                                !.pc = IF how = "sleep" THEN "polling" ELSE "done",
                                !.outcome = IF how = "sleep" THEN "none" ELSE how]
    /\ UNCHANGED <<partition_keys, op, args, ret, default_project, tables, pc, failed_at,
                   created>>

\* The tables the warehouse may hold before a batch is written.
TablesBefore(commands, project) ==
    SUBSET ({Resolve(project, commands[k].table) :
                k \in {k \in DOMAIN commands : commands[k].kind # "MERGE"}}
            \cup {Resolve(project, MergeTable(commands[k], "MERGE_INTO")) :
                k \in {k \in DOMAIN commands : commands[k].kind = "MERGE"}})

BuildInsertCommandsToExecute ==
    BuildInsertCommandsOn(ExecSchemas, ExecBatches, ExecConflictMethods,
                          ExecUniqueConstraintArgs)

BeginExecute ==
    /\ op = "insert"
    /\ pc = 0
    /\ \E existing \in TablesBefore(ret, default_project) : tables' = existing
    /\ pc' = 1
    /\ UNCHANGED <<partition_keys, op, args, ret, default_project, failed_at, created, dbt>>

ExecuteCommand ==
    /\ pc \in 1..Len(ret)
    /\ failed_at = 0
    /\ CanRun(ret[pc], default_project, tables)
    /\ tables' = Effect(ret[pc], default_project, tables)
    /\ created' = IF ret[pc].kind = "CREATE_TABLE"
                  THEN Resolve(default_project, ret[pc].table)
                  ELSE created
    /\ pc' = pc + 1
    /\ UNCHANGED <<partition_keys, op, args, ret, default_project, failed_at, dbt>>

\* Any command may raise the connection's execution error.
ExecuteRaises ==
    /\ pc \in 1..Len(ret)
    /\ failed_at = 0
    /\ failed_at' = pc
    /\ UNCHANGED <<partition_keys, op, args, ret, default_project, tables, pc, created, dbt>>

Init ==
    /\ partition_keys \in PartitionConfigs
    /\ op = "idle"
    /\ args = <<>>
    /\ ret = <<>>
    /\ default_project = "p"
    /\ NotExecuting
    /\ dbt = DbtIdle

Next ==
    \/ BuildCreateTableCommands
    \/ BuildAlterTableCommands
    \/ BuildInsertCommands
    \/ CalculateRecordsInsertedAndUpdated
    \/ TriggerJobRun
    \/ PollRun

Spec == Init /\ [][Next]_vars

InitExec ==
    /\ partition_keys \in PartitionConfigs
    /\ op = "idle"
    /\ args = <<>>
    /\ ret = <<>>
    /\ default_project \in Projects
    /\ NotExecuting
    /\ dbt = DbtIdle

NextExec ==
    \/ BuildInsertCommandsToExecute
    \/ BeginExecute
    \/ ExecuteCommand
    \/ ExecuteRaises

SpecExec == InitExec /\ [][NextExec]_vars

(***************************************************************************)
(* Properties                                                              *)
(***************************************************************************)
UpsertPath ==
    /\ op = "insert"
    /\ TruthyList(args.unique_constraints)
    /\ TruthyStr(args.unique_conflict_method)

PlainPath ==
    /\ op = "insert"
    /\ ~(TruthyList(args.unique_constraints) /\ TruthyStr(args.unique_conflict_method))

TargetTable == <<Str(args.database_name), args.schema_name, args.table_name>>
StagingTable == <<Str(args.database_name), args.schema_name, "temp_" \o args.table_name>>

Kinds(commands) == [i \in DOMAIN commands |-> commands[i].kind]

HasClause(command, clause) == \E i \in DOMAIN command.lines : command.lines[i].clause = clause

ClauseOf(command, clause) ==
    command.lines[CHOOSE i \in DOMAIN command.lines : command.lines[i].clause = clause]

\* C1: with a non-empty unique-constraint list and a non-empty conflict
\* method, build_insert_commands returns exactly five commands, in this
\* order: DROP TABLE IF EXISTS of the staging table, CREATE TABLE of the
\* table temp_<table> in the dataset, INSERT of the whole batch into the
\* staging table, MERGE INTO the target USING the staging table, and the
\* first DROP TABLE IF EXISTS again.
C1_UpsertIsFiveOrderedCommands ==
    UpsertPath =>
        /\ Kinds(ret) = <<"DROP_TABLE_IF_EXISTS", "CREATE_TABLE", "INSERT", "MERGE",
                          "DROP_TABLE_IF_EXISTS">>
        /\ ret[1].table = StagingTable
        /\ ret[2].table[Len(ret[2].table)] = "temp_" \o args.table_name
        /\ ret[2].table[Len(ret[2].table) - 1] = args.schema_name
        /\ ret[3].table = StagingTable
        /\ Len(ret[3].values) = Len(args.records)
        /\ ClauseOf(ret[4], "MERGE_INTO").table = TargetTable
        /\ ClauseOf(ret[4], "USING").table = StagingTable
        /\ ret[5] = ret[1]

C1_Witness ==
    /\ UpsertPath
    /\ Len(args.records) = 2
    /\ Len(ret) = 5
    /\ ret[4].kind = "MERGE"

CleanedSchemaColumns ==
    [i \in DOMAIN Keys(args.schema) |-> clean_column_name(Keys(args.schema)[i])]

UpdatePath == UpsertPath /\ args.unique_conflict_method = Some("UPDATE")

\* C2 as stated: with the UPDATE policy the MERGE's WHEN MATCHED THEN UPDATE
\* SET clause assigns exactly the schema columns that are not in the
\* unique-constraint list.
C2_SetClauseCoversNonKeyColumnsOnly ==
    UpdatePath =>
        /\ HasClause(ret[4], "WHEN_MATCHED_UPDATE_SET")
        /\ Range(ClauseOf(ret[4], "WHEN_MATCHED_UPDATE_SET").columns)
             = {clean_column_name(c) :
                   c \in Range(Keys(args.schema)) \ Range(args.unique_constraints[1])}

\* C2 amended: with the UPDATE policy the MERGE's WHEN MATCHED THEN UPDATE
\* SET clause assigns every schema column (sanitized name, schema order),
\* the unique-constraint columns included.
C2_SetClauseCoversEverySchemaColumn ==
    UpdatePath =>
        /\ HasClause(ret[4], "WHEN_MATCHED_UPDATE_SET")
        /\ ClauseOf(ret[4], "WHEN_MATCHED_UPDATE_SET").columns = CleanedSchemaColumns

C2_Witness ==
    /\ UpdatePath
    /\ Keys(args.schema) = <<"id", "Name">>
    /\ args.unique_constraints = Some(<<"id">>)
    /\ ClauseOf(ret[4], "WHEN_MATCHED_UPDATE_SET").columns = <<"id", "name">>

LiveColumns == {args.results[i][1] : i \in DOMAIN args.results}

AddedColumns(command) == [i \in DOMAIN command.add_columns |-> command.add_columns[i][1]]

PositionIn(seq, x) == CHOOSE i \in DOMAIN seq : seq[i] = x

\* C3: build_alter_table_commands returns no command iff every schema column
\* is among the live table's column names; otherwise it returns exactly one
\* ALTER TABLE command that adds precisely the schema columns absent from the
\* live table, each once, in schema order, and touches no live column.
C3_AlterAddsExactlyTheMissingColumns ==
    op = "alter" =>
        LET keys == Keys(args.schema) IN
        /\ (ret = <<>>) <=> (Range(keys) \subseteq LiveColumns)
        /\ ret # <<>> =>
              /\ Len(ret) = 1
              /\ ret[1].kind = "ALTER_TABLE"
              /\ DOMAIN ret[1] = {"kind", "table", "add_columns"}
              /\ LET added == AddedColumns(ret[1]) IN
                 /\ Range(added) = Range(keys) \ LiveColumns
                 /\ Len(added) = Cardinality(Range(added))
                 /\ \A i, j \in DOMAIN added :
                       i < j => PositionIn(keys, added[i]) < PositionIn(keys, added[j])

C3_Witness ==
    /\ op = "alter"
    /\ LiveColumns = {"id", "name"}
    /\ Keys(args.schema) = <<"id", "Name", "tags">>
    /\ Len(ret) = 1
    /\ AddedColumns(ret[1]) = <<"Name", "tags">>

\* C4: without unique constraints or without a conflict method (None or
\* empty), build_insert_commands returns exactly one command, an INSERT INTO
\* the target table, not the staging table, with one VALUES tuple per record.
C4_PlainInsertIsOneCommand ==
    PlainPath =>
        /\ Len(ret) = 1
        /\ ret[1].kind = "INSERT"
        /\ ret[1].table = TargetTable
        /\ ret[1].table # StagingTable
        /\ Len(ret[1].values) = Len(args.records)

C4_Witness ==
    /\ PlainPath
    /\ args.unique_constraints = Some(<<"id">>)
    /\ args.unique_conflict_method = None
    /\ Len(args.records) = 2
    /\ Len(ret) = 1
    /\ Len(ret[1].values) = 2

\* C5: on the upsert path the MERGE has a WHEN MATCHED clause iff the
\* conflict method is UPDATE, and always has the WHEN NOT MATCHED THEN INSERT
\* clause.
C5_MatchedClauseIffUpdate ==
    UpsertPath =>
        /\ ret[4].kind = "MERGE"
        /\ HasClause(ret[4], "WHEN_MATCHED_UPDATE_SET")
              <=> (args.unique_conflict_method = Some("UPDATE"))
        /\ HasClause(ret[4], "WHEN_NOT_MATCHED_INSERT")

C5_Witness ==
    /\ UpsertPath
    /\ args.unique_conflict_method = Some("IGNORE")
    /\ ~HasClause(ret[4], "WHEN_MATCHED_UPDATE_SET")
    /\ HasClause(ret[4], "WHEN_NOT_MATCHED_INSERT")

HasConfiguredPartitionKey ==
    /\ args.stream # None
    /\ args.stream[1] \in DOMAIN partition_keys
    /\ Len(partition_keys[args.stream[1]]) >= 1

\* C6: build_create_table_commands returns exactly one command; it carries a
\* partition clause iff the stream has at least one configured partition key,
\* and the clause then names that stream's first key only.
C6_OneCreateWithFirstPartitionKey ==
    op = "create" =>
        /\ Len(ret) = 1
        /\ ret[1].kind = "CREATE_TABLE"
        /\ (ret[1].partition_by # <<>>) <=> HasConfiguredPartitionKey
        /\ HasConfiguredPartitionKey =>
              ret[1].partition_by = <<partition_keys[args.stream[1]][1]>>

C6_Witness ==
    /\ op = "create"
    /\ args.stream = Some("s1")
    /\ "s1" \in DOMAIN partition_keys
    /\ Len(partition_keys["s1"]) = 2
    /\ ret[1].partition_by = <<"created_at">>

RowCount(t) == IF Len(t) >= 1 /\ t[1][1] = "int" THEN t[1][2] ELSE 0

RowPlaces(data) == UNION {{<<i, j>> : j \in DOMAIN data[i]} : i \in DOMAIN data}

RECURSIVE SumOverPlaces(_, _)
SumOverPlaces(data, places) ==
    IF places = {} THEN 0
    ELSE LET x == CHOOSE y \in places : TRUE
         IN  RowCount(data[x[1]][x[2]]) + SumOverPlaces(data, places \ {x})

\* C7: calculate_records_inserted_and_updated returns (inserted, 0), inserted
\* being the sum over every row of every result set of the row's first field
\* where the row is non-empty and that field is an int; updated is 0 also
\* with unique constraints and the UPDATE method.
C7_InsertedIsSumOfLeadingIntsUpdatedIsZero ==
    op = "calculate" =>
        /\ ret[1] = SumOverPlaces(args.data, RowPlaces(args.data))
        /\ ret[2] = 0

C7_Witness ==
    /\ op = "calculate"
    /\ args.unique_conflict_method = Some("UPDATE")
    /\ Len(args.data) = 2
    /\ args.data[1] = << <<<<"int", 2>>, <<"str", "x">>>> >>
    /\ args.data[2] = << <<<<"int", 1>>>> >>
    /\ ret = <<3, 0>>

Executed == UpsertPath /\ pc >= 1

AllSucceeded == Executed /\ failed_at = 0 /\ pc = Len(ret) + 1

StagingStepRaised ==
    /\ Executed
    /\ failed_at \in DOMAIN ret
    /\ ret[failed_at].kind \in {"INSERT", "MERGE"}

\* C8: executing the upsert commands in the emitted order and stopping at
\* the first one that raises, a failure of the staging INSERT or of the MERGE
\* leaves the staging table that was created in existence, and a run in
\* which every command succeeds ends with the staging table absent.
C8_StagingLeftOnFailureDroppedOnSuccess ==
    /\ StagingStepRaised =>
          /\ created # <<>>
          /\ created \in tables
          /\ pc = failed_at
    /\ AllSucceeded =>
          /\ created # <<>>
          /\ created \notin tables
          /\ Resolve(default_project, StagingTable) \notin tables

C8_WitnessMergeRaised ==
    /\ StagingStepRaised
    /\ ret[failed_at].kind = "MERGE"
    /\ created \in tables

C8_WitnessAllSucceeded ==
    /\ AllSucceeded
    /\ Len(ret) = 5
    /\ created # <<>>
    /\ created \notin tables

\* C9: on the upsert path the staging CREATE TABLE names the same table
\* identifier as the two DROP TABLE IF EXISTS commands, the staging INSERT
\* and the MERGE's USING clause.
C9_StagingIdentifierIsShared ==
    (UpsertPath /\ Len(ret) = 5) =>
        /\ ret[1].table = ret[2].table
        /\ ret[3].table = ret[2].table
        /\ ClauseOf(ret[4], "USING").table = ret[2].table
        /\ ret[5].table = ret[2].table

Polled == op = "trigger_job_run" /\ dbt.poll_status

TimedOut == TruthyNum(dbt.poll_timeout) /\ dbt.elapsed > dbt.poll_timeout[1]

\* C10: with poll_status, trigger_job_run returns normally only if the last
\* polled status is SUCCESS, and a SUCCESS poll returns normally even after
\* poll_timeout elapsed; any other terminal status raises the failure error;
\* the timeout error is raised only after a poll that returned a
\* non-terminal status; without poll_status no status poll is issued.
C10_PollingOutcome ==
    /\ (Polled /\ dbt.outcome = "returned") => dbt.status = SUCCESS
    /\ (Polled /\ dbt.polls >= 1 /\ dbt.status = SUCCESS) => dbt.outcome = "returned"
    /\ (Polled /\ dbt.polls >= 1 /\ dbt.status \in TERMINAL_STATUSES \ {SUCCESS})
          => dbt.outcome = "raised_failed"
    /\ dbt.outcome = "raised_timeout" =>
          /\ Polled
          /\ dbt.polls >= 1
          /\ dbt.status \notin TERMINAL_STATUSES
          /\ TimedOut
    /\ (op = "trigger_job_run" /\ ~dbt.poll_status) =>
          /\ dbt.polls = 0
          /\ dbt.status = "none"
          /\ dbt.outcome = "returned"

C10_Witness ==
    /\ Polled
    /\ dbt.outcome = "returned"
    /\ dbt.status = SUCCESS
    /\ dbt.polls >= 2
    /\ TimedOut

====
